---- MODULE Spec2Model ----
(***************************************************************************)
(* ReviewClassifier of medinify/sentiment/review_classifier.py.            *)
(*                                                                         *)
(* State: the instance attributes classifier_type and model, the CSV file  *)
(* of reviews, the pickle files on disk, and a record of the last call     *)
(* (its return value or the exception it raised, and the locals of the     *)
(* call that the properties speak about).  One action per public method.   *)
(*                                                                         *)
(* Numbers: a rating "d.t" is the pair <<d, t>> and float() turns it into  *)
(* tenths; accuracies are fixed point with two decimals.  Python's 0-based *)
(* positions are 1-based here.                                             *)
(***************************************************************************)
EXTENDS Integers, Sequences, FiniteSets, Bags, TLC

VARIABLES classifier_type, model, reviews, files, ret,
          dataset, fold, model_scores, folds

vars == <<classifier_type, model, reviews, files, ret,
          dataset, fold, model_scores, folds>>

(* ---------------------------- bounds ----------------------------------- *)
MaxLen == 3
MaxPos == 1
MaxMid == 1
MaxNeg == 1
Extra == 1
MaxShift == 1

(* ------------------------ class attributes ----------------------------- *)
negative_threshold == 20
positive_threshold == 40
n_splits == 10

None == "None"
Families == {"nb", "dt", "rf", "nn"}
ClassifierTypes == Families \cup {None, "svm"}

NoModel == [kind |-> "None"]
NoValue == [kind |-> "None"]
NoFile == [kind |-> "absent"]
NoDataset == [kind |-> "unset", items |-> <<>>]

(* A local assigned once and read many times: Body is applied to the      *)
(* value of the expression, which is computed a single time.               *)
Let(value, Body(_)) == CHOOSE r \in {Body(x) : x \in {value}} : TRUE

AsList(f) == f \o <<>>

(* ------------------------- build_dataset ------------------------------- *)
Float(rating) == rating[1] * 10 + rating[2]

Lower(word) ==
    CASE word = "Good" -> "good"
      [] word = "Bad" -> "bad"
      [] word = "The" -> "the"
      [] OTHER -> word

stop_words == {"the"}

FilteredTokens(comment) ==
    {Lower(comment[i]) : i \in DOMAIN comment} \ stop_words

IsNegative_strict(rating) == Float(rating) < negative_threshold

IsNegative(rating) == Float(rating) <= negative_threshold

IsPositive(rating) == Float(rating) >= positive_threshold

RECURSIVE SeparateReviews(_, _, _, _)
SeparateReviews(rs, i, positive_comments, negative_comments) ==
    IF i > Len(rs)
    THEN [pos |-> positive_comments, neg |-> negative_comments]
    ELSE LET comment == rs[i].comment
             rating == rs[i].rating
             filtered_tokens == FilteredTokens(comment)
             neg2 == IF IsNegative(rating)
                     THEN Append(negative_comments, <<filtered_tokens, "neg">>)
                     ELSE negative_comments
             pos2 == IF IsPositive(rating)
                     THEN Append(positive_comments, <<filtered_tokens, "pos">>)
                     ELSE positive_comments
         IN SeparateReviews(rs, i + 1, pos2, neg2)

LabelledComments(rs) ==
    LET sep == SeparateReviews(rs, 1, <<>>, <<>>)
    IN sep.pos \o sep.neg

WordOrder == <<"bad", "good", "great", "poor">>

FeatureNames(items) ==
    SelectSeq(WordOrder, LAMBDA w : \E i \in DOMAIN items : w \in items[i][1])

Classes(items) ==
    SelectSeq(<<"neg", "pos">>, LAMBDA l : \E i \in DOMAIN items : items[i][2] = l)

IndexOf(seq, x) == CHOOSE j \in DOMAIN seq : seq[j] = x

Vectorize(items) ==
    Let(FeatureNames(items), LAMBDA names :
    Let(Classes(items), LAMBDA classes :
        AsList([i \in DOMAIN items |->
            << AsList([j \in DOMAIN names |->
                          IF names[j] \in items[i][1] THEN 1 ELSE 0]),
               IndexOf(classes, items[i][2]) - 1 >>])))

build_dataset(ct, rs) ==
    Let(LabelledComments(rs), LAMBDA labelled :
        IF ct = "nb" \/ ct = "dt"
        THEN [status |-> "ok",
              value |-> [kind |-> "symbolic", items |-> labelled],
              dataset |-> [kind |-> "symbolic", items |-> labelled]]
        ELSE IF labelled = <<>>
        THEN [status |-> "ValueError", value |-> NoValue,
              dataset |-> [kind |-> "symbolic", items |-> labelled]]
        ELSE [status |-> "ok",
              value |-> [kind |-> "numeric", items |-> Vectorize(labelled)],
              dataset |-> [kind |-> "symbolic", items |-> labelled]])

(* ----------------------- create_trained_model -------------------------- *)
(* The fitted classifier is a value of the library; it is kept as the data *)
(* it was fitted on together with the decision rule h it came out with:    *)
(* "prior" answers the most frequent label of the training data, "overlap" *)
(* the label of most training instances sharing a feature with the input.  *)
Learners == {"prior", "overlap"}

create_trained_model(ct, data, h) ==
    LET fitted == [kind |-> "model", family |-> ct, h |-> h, data |-> data]
    IN CASE ct = "nb" ->
              IF data.items = <<>>
              THEN [status |-> "ValueError", value |-> NoModel]
              ELSE [status |-> "ok", value |-> fitted]
         [] ct = "dt" ->
              IF data.items = <<>>
              THEN [status |-> "ValueError", value |-> NoModel]
              ELSE [status |-> "ok", value |-> fitted]
         [] ct = "rf" ->
              IF data.items = <<>>
              THEN [status |-> "ValueError", value |-> NoModel]
              ELSE [status |-> "ok", value |-> fitted]
         [] ct = "nn" ->
              IF data.items = <<>>
              THEN [status |-> "IndexError", value |-> NoModel]
              ELSE [status |-> "ok", value |-> fitted]
         [] OTHER -> [status |-> "UnboundLocalError", value |-> NoModel]

Features(kind, x) ==
    IF kind = "symbolic" THEN x ELSE {j \in DOMAIN x : x[j] = 1}

LabelsOf(items) == {items[i][2] : i \in DOMAIN items}

FirstWith(items, S) ==
    items[CHOOSE i \in DOMAIN items :
            /\ items[i][2] \in S
            /\ \A j \in DOMAIN items : items[j][2] \in S => i <= j][2]

ArgMax(items, cnt) ==
    FirstWith(items, {l \in DOMAIN cnt : \A l2 \in DOMAIN cnt : cnt[l] >= cnt[l2]})

Predict(m, x) ==
    LET items == m.data.items
        kind == m.data.kind
        prior == [l \in LabelsOf(items) |->
                     Cardinality({i \in DOMAIN items : items[i][2] = l})]
        overlap == [l \in LabelsOf(items) |->
            Cardinality({i \in DOMAIN items :
                           /\ items[i][2] = l
                           /\ Features(kind, items[i][1]) \cap Features(kind, x) # {}})]
    IN IF m.h = "overlap" /\ \E l \in LabelsOf(items) : overlap[l] > 0
       THEN ArgMax(items, overlap)
       ELSE ArgMax(items, prior)

Accuracy(m, test_data) ==
    (Cardinality({i \in DOMAIN test_data :
                    Predict(m, test_data[i][1]) = test_data[i][2]}) * 100)
        \div Len(test_data)

(* --------------------- StratifiedKFold(n_splits=10) -------------------- *)
Ascending(S) ==
    AsList([k \in 1..Cardinality(S) |->
               CHOOSE x \in S : Cardinality({y \in S : y < x}) = k - 1])

ClassOrder(y) ==
    Let(Ascending({i \in DOMAIN y : \A j \in 1..(i - 1) : y[j] # y[i]}),
        LAMBDA firsts : AsList([k \in DOMAIN firsts |-> y[firsts[k]]]))

Encoded(y) ==
    Let(ClassOrder(y), LAMBDA order :
        AsList([i \in DOMAIN y |-> IndexOf(order, y[i]) - 1]))

ClassCounts(y_encoded, n_classes) ==
    AsList([c \in 1..n_classes |->
        Cardinality({i \in DOMAIN y_encoded : y_encoded[i] = c - 1})])

RECURSIVE Before(_, _)
Before(counts, k) ==
    IF k = 0 THEN 0 ELSE Before(counts, k - 1) + counts[k]

Allocation(n, lo, hi, f) ==
    Cardinality({j \in 0..(n - 1) : j % n_splits = f /\ lo <= j /\ j < hi})

RECURSIVE Repeat(_, _)
Repeat(x, n) == IF n = 0 THEN <<>> ELSE <<x>> \o Repeat(x, n - 1)

RECURSIVE FoldsForClass(_, _, _, _)
FoldsForClass(n, lo, hi, f) ==
    IF f = n_splits THEN <<>>
    ELSE Repeat(f, Allocation(n, lo, hi, f)) \o FoldsForClass(n, lo, hi, f + 1)

Shuffle(seq, s) ==
    Let(seq, LAMBDA v :
        AsList([i \in DOMAIN v |-> v[((i - 1 + s) % Len(v)) + 1]]))

TestFolds(y, seed) ==
    Let(Encoded(y), LAMBDA y_encoded :
    Let(ClassCounts(y_encoded, Len(ClassOrder(y))), LAMBDA y_counts :
    Let(AsList([c \in DOMAIN y_counts |->
                   Let(Before(y_counts, c - 1), LAMBDA lo :
                       Shuffle(FoldsForClass(Len(y), lo, lo + y_counts[c], 0),
                               seed[c]))]),
        LAMBDA shuffled :
            AsList([i \in DOMAIN y |->
                shuffled[y_encoded[i] + 1]
                        [Cardinality({j \in 1..i : y_encoded[j] = y_encoded[i]})]]))))

Split(y, seed) ==
    IF Len(y) < n_splits
    THEN [status |-> "ValueError", splits |-> <<>>]
    ELSE Let(ClassCounts(Encoded(y), Len(ClassOrder(y))), LAMBDA y_counts :
         IF \A c \in DOMAIN y_counts : n_splits > y_counts[c]
         THEN [status |-> "ValueError", splits |-> <<>>]
         ELSE Let(TestFolds(y, seed), LAMBDA test_folds :
              [status |-> "ok",
               splits |-> AsList([f \in 1..n_splits |->
                   [train |-> Ascending({i \in DOMAIN y : test_folds[i] # f - 1}),
                    test |-> Ascending({i \in DOMAIN y : test_folds[i] = f - 1})]])]))

(* --------------------- evaluate_average_accuracy ----------------------- *)
TestData(items, test) == AsList([j \in DOMAIN test |-> items[test[j]]])

TrainData_all(items, train) == items

TrainData(items, train) == AsList([j \in DOMAIN train |-> items[train[j]]])

RECURSIVE Sum(_)
Sum(seq) == IF seq = <<>> THEN 0 ELSE Head(seq) + Sum(Tail(seq))

Mean_last(scores) ==
    IF scores = <<>> THEN [kind |-> "nan"]
    ELSE [kind |-> "float", v |-> scores[Len(scores)]]

Mean(scores) ==
    IF scores = <<>> THEN [kind |-> "nan"]
    ELSE [kind |-> "float", v |-> Sum(scores) \div Len(scores)]

FoldRun(ct, data, split, h) ==
    Let(TestData(data.items, split.test), LAMBDA test_data :
    Let(TrainData(data.items, split.train), LAMBDA train_data :
    Let(create_trained_model(ct, [kind |-> data.kind, items |-> train_data], h),
        LAMBDA trained :
            [train |-> split.train, test |-> split.test,
             train_data |-> train_data, test_data |-> test_data,
             status |-> trained.status, model |-> trained.value,
             score |-> IF trained.status = "ok"
                       THEN Accuracy(trained.value, test_data) * 100
                       ELSE 0])))

Raised(e, data, n, scores, runs) ==
    [status |-> e, value |-> NoValue, dataset |-> data,
     fold |-> n, model_scores |-> scores, folds |-> runs]

FoldLoop(ct, data, sp, h) ==
    Let(AsList([f \in DOMAIN sp.splits |-> FoldRun(ct, data, sp.splits[f], h)]),
        LAMBDA runs :
    Let({f \in DOMAIN runs : runs[f].status # "ok"}, LAMBDA failed :
        IF failed # {}
        THEN Let(CHOOSE f \in failed : \A g \in failed : f <= g, LAMBDA reached :
                 Raised(runs[reached].status, data, reached,
                        AsList([f \in 1..(reached - 1) |-> runs[f].score]),
                        SubSeq(runs, 1, reached)))
        ELSE Let(AsList([f \in DOMAIN runs |-> runs[f].score]), LAMBDA scores :
                 [status |-> "ok", value |-> Mean(scores), dataset |-> data,
                  fold |-> Len(runs), model_scores |-> scores, folds |-> runs])))

evaluate_average_accuracy(ct, rs, h, seed) ==
    IF ct \notin Families
    THEN [status |-> "ok", value |-> Mean(<<>>), dataset |-> NoDataset,
          fold |-> 0, model_scores |-> <<>>, folds |-> <<>>]
    ELSE Let(build_dataset(ct, rs), LAMBDA built :
         IF built.status # "ok"
         THEN Raised(built.status, NoDataset, 0, <<>>, <<>>)
         ELSE Let(Split(AsList([i \in DOMAIN built.value.items |->
                                   built.value.items[i][2]]), seed),
              LAMBDA sp :
                  IF sp.status # "ok"
                  THEN Raised(sp.status, built.value, 0, <<>>, <<>>)
                  ELSE FoldLoop(ct, built.value, sp, h)))

(* ------------------------------ pickle --------------------------------- *)
FileNames == {"trained_nb_model.pickle", "trained_dt_model.pickle"}

Pickle(obj) == [kind |-> "pickle", protocol |-> "HIGHEST_PROTOCOL", obj |-> obj]

save_file_name(ct) ==
    CASE ct = "nb" -> [status |-> "ok", file_name |-> "trained_nb_model.pickle"]
      [] ct = "dt" -> [status |-> "ok", file_name |-> "trained_dt_model.pickle"]
      [] OTHER -> [status |-> "UnboundLocalError", file_name |-> None]

load_model(ct, file_name, fs) ==
    IF ct = "nb" \/ ct = "dt"
    THEN IF fs[file_name] = NoFile
         THEN [status |-> "FileNotFoundError"]
         ELSE [status |-> "TypeError"]
    ELSE [status |-> "ok"]

(* ------------------------------ inputs --------------------------------- *)
Ratings == {<<1, 0>>, <<2, 0>>, <<2, 1>>, <<3, 9>>, <<4, 0>>, <<5, 0>>}

Comments == {<<"Good", "the">>, <<"bad">>}

ReviewFiles ==
    UNION {[1..k -> [comment : Comments, rating : Ratings]] : k \in 0..MaxLen}

PositiveReview(i) ==
    IF i % 2 = 1 THEN [comment |-> <<"Good", "the">>, rating |-> <<5, 0>>]
    ELSE [comment |-> <<"great">>, rating |-> <<4, 0>>]

NeutralReview(i) == [comment |-> <<"good", "bad">>, rating |-> <<3, 0>>]

NegativeReview(i) ==
    IF i % 2 = 1 THEN [comment |-> <<"The", "Bad">>, rating |-> <<2, 0>>]
    ELSE [comment |-> <<"poor">>, rating |-> <<1, 0>>]

Corpus(p, m, n) ==
    [i \in 1..(p + m + n) |->
        IF i <= p THEN PositiveReview(i)
        ELSE IF i <= p + m THEN NeutralReview(i - p)
        ELSE NegativeReview(i - p - m)]

(* review files too small for ten folds *)
SmallCorpora ==
    {Corpus(p, m, n) : p \in 0..MaxPos, m \in {0, MaxMid}, n \in 0..MaxNeg}

(* review files with at least n_splits reviews of one class, and one without *)
FoldCorpora ==
    {Corpus(p, MaxMid, n) : p \in {n_splits, n_splits + Extra}, n \in {0, MaxNeg}}
        \cup {Corpus(MaxPos, MaxMid, n_splits), Corpus(MaxPos, 0, MaxNeg)}

Seeds == [1..2 -> 0..MaxShift]

(* ------------------------------ actions -------------------------------- *)
Returned(op, status, value, arg) ==
    [op |-> op, status |-> status, value |-> value, arg |-> arg]

NoLocals ==
    /\ dataset' = NoDataset
    /\ fold' = 0
    /\ model_scores' = <<>>
    /\ folds' = <<>>

Init ==
    /\ classifier_type \in ClassifierTypes
    /\ model = NoModel
    /\ reviews \in SmallCorpora
    /\ files = [f \in FileNames |-> NoFile]
    /\ ret = Returned("__init__", "ok", NoValue, NoValue)
    /\ dataset = NoDataset
    /\ fold = 0
    /\ model_scores = <<>>
    /\ folds = <<>>

BuildDataset ==
    \E r \in {build_dataset(classifier_type, reviews)} :
       /\ ret' = Returned("build_dataset", r.status, r.value, NoValue)
       /\ dataset' = r.dataset
       /\ fold' = 0
       /\ model_scores' = <<>>
       /\ folds' = <<>>
       /\ UNCHANGED <<classifier_type, model, reviews, files>>

CreateTrainedModel ==
    \E h \in Learners :
    \E built \in {build_dataset(classifier_type, reviews)} :
    \E data \in {IF built.status = "ok" THEN built.value
                 ELSE [kind |-> "numeric", items |-> <<>>]} :
    \E r \in {create_trained_model(classifier_type, data, h)} :
           /\ ret' = Returned("create_trained_model", r.status, r.value, NoValue)
           /\ NoLocals
           /\ UNCHANGED <<classifier_type, model, reviews, files>>

train(ct, rs, h) ==
    IF ct \in Families
    THEN Let(build_dataset(ct, rs), LAMBDA built :
             IF built.status # "ok"
             THEN [status |-> built.status, value |-> NoModel]
             ELSE create_trained_model(ct, built.value, h))
    ELSE [status |-> "ok", value |-> NoModel]

Train ==
    \E h \in Learners :
    \E r \in {train(classifier_type, reviews, h)} :
           /\ ret' = Returned("train", r.status, NoValue, NoValue)
           /\ model' = IF r.status = "ok" /\ classifier_type \in Families
                       THEN r.value ELSE model
           /\ NoLocals
           /\ UNCHANGED <<classifier_type, reviews, files>>

EvaluateLocals(r) ==
    /\ ret' = Returned("evaluate_average_accuracy", r.status, r.value, NoValue)
    /\ dataset' = r.dataset
    /\ fold' = r.fold
    /\ model_scores' = r.model_scores
    /\ folds' = r.folds
    /\ UNCHANGED <<classifier_type, reviews, files>>

EvaluateAverageAccuracy_keepsLastModel ==
    \E h \in Learners, seed \in Seeds :
    \E r \in {evaluate_average_accuracy(classifier_type, reviews, h, seed)} :
           /\ EvaluateLocals(r)
           /\ model' = IF r.folds # <<>> THEN r.folds[Len(r.folds)].model
                       ELSE model

EvaluateAverageAccuracy ==
    \E h \in Learners, seed \in Seeds :
    \E r \in {evaluate_average_accuracy(classifier_type, reviews, h, seed)} :
           /\ EvaluateLocals(r)
           /\ UNCHANGED model

SaveModel ==
    \E name \in {save_file_name(classifier_type)} :
       /\ ret' = Returned("save_model", name.status, NoValue, NoValue)
       /\ files' = IF name.status = "ok"
                   THEN [files EXCEPT ![name.file_name] = Pickle(model)]
                   ELSE files
       /\ NoLocals
       /\ UNCHANGED <<classifier_type, model, reviews>>

LoadModel ==
    \E ct \in ClassifierTypes, file_name \in FileNames :
    \E r \in {load_model(ct, file_name, files)} :
           /\ ret' = Returned("load_model", r.status, NoValue,
                              [classifier_type |-> ct, file_name |-> file_name])
           /\ NoLocals
           /\ UNCHANGED <<classifier_type, model, reviews, files>>

Next ==
    \/ BuildDataset
    \/ CreateTrainedModel
    \/ Train
    \/ EvaluateAverageAccuracy
    \/ SaveModel
    \/ LoadModel

Spec == Init /\ [][Next]_vars

(* training and cross-validation over review files large enough to fold *)
InitCV ==
    /\ classifier_type \in ClassifierTypes
    /\ model = NoModel
    /\ reviews \in FoldCorpora
    /\ files = [f \in FileNames |-> NoFile]
    /\ ret = Returned("__init__", "ok", NoValue, NoValue)
    /\ dataset = NoDataset
    /\ fold = 0
    /\ model_scores = <<>>
    /\ folds = <<>>

NextCV ==
    \/ Train
    \/ EvaluateAverageAccuracy

SpecCV == InitCV /\ [][NextCV]_vars

(* build_dataset alone, over every review file of at most MaxLen rows *)
InitBuild ==
    /\ classifier_type \in ClassifierTypes
    /\ model = NoModel
    /\ reviews \in ReviewFiles
    /\ files = [f \in FileNames |-> NoFile]
    /\ ret = Returned("__init__", "ok", NoValue, NoValue)
    /\ dataset = NoDataset
    /\ fold = 0
    /\ model_scores = <<>>
    /\ folds = <<>>

NextBuild == BuildDataset

SpecBuild == InitBuild /\ [][NextBuild]_vars

(* ------------------------------ claims --------------------------------- *)
Range(seq) == {seq[i] : i \in DOMAIN seq}

BagOf(seq) ==
    [x \in Range(seq) |-> Cardinality({i \in DOMAIN seq : seq[i] = x})]

Labelled(label, Keep(_)) ==
    LET kept == SelectSeq(reviews, Keep)
    IN [i \in DOMAIN kept |-> <<FilteredTokens(kept[i].comment), label>>]

Completed ==
    /\ ret.op = "evaluate_average_accuracy"
    /\ ret.status = "ok"
    /\ classifier_type \in Families

(* C1: build_dataset turns every review rated at most 2.0 into one 'neg'   *)
(* instance and every review rated at least 4.0 into one 'pos' instance,   *)
(* 2.0 and 4.0 included, and drops every review rated strictly between;    *)
(* the instances are the positive ones in file order, then the negative.   *)
C1_ThresholdLabelling ==
    ret.op = "build_dataset" =>
        /\ dataset.items =
               Labelled("pos", LAMBDA r : Float(r.rating) >= 40)
                   \o Labelled("neg", LAMBDA r : Float(r.rating) <= 20)
        /\ Len(dataset.items) =
               Cardinality({i \in DOMAIN reviews :
                               \/ Float(reviews[i].rating) <= 20
                               \/ Float(reviews[i].rating) >= 40})
        /\ \A i \in DOMAIN dataset.items : dataset.items[i][2] \in {"pos", "neg"}

C1_Witness ==
    /\ ret.op = "build_dataset"
    /\ Len(reviews) = 3
    /\ \E i, j, k \in DOMAIN reviews :
          /\ reviews[i].rating = <<2, 0>>
          /\ reviews[j].rating = <<4, 0>>
          /\ reviews[k].rating \in {<<2, 1>>, <<3, 9>>}
    /\ Len(dataset.items) = 2
    /\ dataset.items[1][2] = "pos"
    /\ dataset.items[2][2] = "neg"

(* C2: in a completed evaluate_average_accuracy there are ten folds; in    *)
(* each fold the training and test partitions are disjoint and together    *)
(* are the whole dataset, and every instance is in the test partition of   *)
(* exactly one fold and in the training partition of the other nine.       *)
C2_FoldsPartitionDataset ==
    Completed =>
        LET items == dataset.items
            n == Len(items)
        IN /\ Len(folds) = 10
           /\ \A f \in DOMAIN folds :
                 /\ Range(folds[f].test) \cap Range(folds[f].train) = {}
                 /\ Range(folds[f].test) \cup Range(folds[f].train) = 1..n
                 /\ Len(folds[f].test) + Len(folds[f].train) = n
                 /\ Len(folds[f].test_data) = Len(folds[f].test)
                 /\ Len(folds[f].train_data) = Len(folds[f].train)
                 /\ \A j \in DOMAIN folds[f].test :
                       folds[f].test_data[j] = items[folds[f].test[j]]
                 /\ \A j \in DOMAIN folds[f].train :
                       folds[f].train_data[j] = items[folds[f].train[j]]
                 /\ BagOf(folds[f].train_data) (+) BagOf(folds[f].test_data)
                        = BagOf(items)
           /\ \A i \in 1..n :
                 /\ Cardinality({f \in DOMAIN folds : i \in Range(folds[f].test)}) = 1
                 /\ Cardinality({f \in DOMAIN folds : i \in Range(folds[f].train)}) = 9

C2_Witness ==
    /\ Completed
    /\ fold = 10
    /\ {"pos", "neg"} \subseteq {r[2] : r \in Range(LabelledComments(reviews))}
    /\ \E f \in DOMAIN folds : Len(folds[f].test) >= 2
    /\ \E f \in DOMAIN folds : Len(folds[f].test) = 1

(* C3: when evaluate_average_accuracy completes for one of the four        *)
(* families, ten accuracies have been recorded, the f-th being the         *)
(* accuracy of fold f, and the value returned is their arithmetic mean.    *)
C3_MeanOfTenScores ==
    Completed =>
        /\ fold = 10
        /\ Len(model_scores) = 10
        /\ \A f \in 1..10 :
              model_scores[f] =
                  Accuracy(folds[f].model, folds[f].test_data) * 100
        /\ ret.value.kind = "float"
        /\ ret.value.v = Sum(model_scores) \div 10

C3_Witness ==
    /\ Completed
    /\ Len(model_scores) = 10
    /\ \E f, g \in DOMAIN model_scores : model_scores[f] # model_scores[g]
    /\ model_scores[10] # ret.value.v

(* C4: after train and save_model of a symbolic family, load_model of the  *)
(* saved file succeeds, leaves the deserialized model in the model slot,   *)
(* and that model predicts as the saved one on every set of tokens.        *)
C4_LoadRestoresSavedModel ==
    (/\ ret.op = "load_model"
     /\ classifier_type \in {"nb", "dt"}
     /\ ret.arg.classifier_type = classifier_type
     /\ ret.arg.file_name = save_file_name(classifier_type).file_name
     /\ files[ret.arg.file_name].kind = "pickle"
     /\ files[ret.arg.file_name].obj.kind = "model")
    => /\ ret.status = "ok"
       /\ model = files[ret.arg.file_name].obj
       /\ \A x \in SUBSET Range(WordOrder) :
             Predict(model, x) = Predict(files[ret.arg.file_name].obj, x)

(* C5: load_model never returns normally when the model slot is empty and  *)
(* the file asked for was never written, whatever family is passed.        *)
C5_LoadWithoutModelFails ==
    (/\ ret.op = "load_model"
     /\ model = NoModel
     /\ files[ret.arg.file_name] = NoFile)
    => ret.status # "ok"

(* C6: with a classifier_type outside nb, dt, rf, nn (None included),      *)
(* create_trained_model, train and evaluate_average_accuracy all raise,    *)
(* and the model slot stays as it was.                                     *)
C6_UnknownFamilyFails ==
    (/\ classifier_type \notin Families
     /\ ret.op \in {"create_trained_model", "train", "evaluate_average_accuracy"})
    => /\ ret.status # "ok"
       /\ model = NoModel

(* C7: when no review has a rating at most 2.0 or at least 4.0,            *)
(* build_dataset and train raise for every family: no dataset is returned  *)
(* and no model is stored.                                                 *)
C7_EmptyDatasetFails ==
    (/\ classifier_type \in Families
     /\ ret.op \in {"build_dataset", "train"}
     /\ \A i \in DOMAIN reviews :
           /\ Float(reviews[i].rating) > 20
           /\ Float(reviews[i].rating) < 40)
    => /\ ret.status # "ok"
       /\ model = NoModel

(* C8: save_model of a trained classifier of any of the four families      *)
(* writes its model to the file named after the family.                    *)
C8_SaveWritesFamilyFile ==
    (/\ ret.op = "save_model"
     /\ classifier_type \in Families
     /\ model # NoModel)
    => /\ ret.status = "ok"
       /\ \E f \in FileNames : files[f] = Pickle(model)

(* C9: every file written by save_model holds a model produced by          *)
(* training, never the empty model slot.                                   *)
C9_ArtifactsHoldTrainedModels ==
    \A f \in FileNames : files[f] # NoFile => files[f].obj # NoModel

(* C10: a call of evaluate_average_accuracy leaves the model slot and      *)
(* classifier_type as they were, trained or not.                           *)
C10_EvaluateKeepsModel ==
    [][ret'.op = "evaluate_average_accuracy"
          => model' = model /\ classifier_type' = classifier_type]_vars

C10_Witness ==
    /\ Completed
    /\ fold = 10
    /\ model # NoModel
    /\ model.family = classifier_type

====
